---------------------------- MODULE Spec2Model ----------------------------
(***************************************************************************)
(* Pinball scoreboard controller (game.py, hardware.py).                   *)
(*                                                                         *)
(* The main thread runs show_start_screen / run_test_mode and then the     *)
(* gameplay loop; every solenoid pulse is a detached thread.  Time is the  *)
(* wall clock time.time(), counted in units of 10 ms.                      *)
(***************************************************************************)
EXTENDS Integers, Sequences, FiniteSets, Bags, TLC

(***************************************************************************)
(* Bounds of the model.                                                    *)
(***************************************************************************)
\* no frame ends after this time (short runs, dense in events)
MaxTime == 220
\* no frame ends after this time (long runs)
LongTime == 500
\* no frame ends after this time (runs with every scoring input)
ScoreTime == 180
\* no frame ends after this time (runs that reach the game-over screen)
ResetTime == 290
\* no frame ends after this time (runs of short frames that end by QUIT)
QuitTime == 170
\* no frame ends after this time (runs through test mode)
TestTime == 170
\* no frame ends after this time (runs that wait on the game-over screen)
GameOverTime == 330
\* no frame ends after this time (runs from test mode into gameplay)
HandoverTime == 120
\* the G key is no longer offered when its bonus would exceed this score
MaxScore == 30000
\* number of debounced accept-attempts recorded in the observation log
MaxLog == 3
\* key events handled in one frame
MaxBatch == 2

(***************************************************************************)
(* Program constants (seconds * 100).                                      *)
(***************************************************************************)
HIT_COOLDOWN == 40
BUMPER_COOLDOWN == 30
PULSE_TIME == 10
TEST_SOLENOID_PULSE_TIME == 8
TEST_SOLENOID_COOLDOWN == 50
BANK_PULSE_TIME == 25
BANK_SETTLE == 20
STRIKE_SLEEP == 25
SWITCH_SLEEP == 10
GOAL_SLEEP == 30
KBD_WAIT == 20
TARGET_AWARD == 500
BUMPER_AWARD == 100
GOAL_AWARD == 2000
JACKPOT_AWARD == 10000
START_BALLS == 2
\* len("PIONEER")
PIONEER_LEN == 7
\* show_start_screen: range(0, 180, 6) frames of clock.tick(60), at least 0.5 s
START_FADE == 50
\* show_game_over_screen: range(0, 180, 5) delays of 30 ms
GAME_OVER_FADE == 108
\* time.time() when the program starts: seconds since the epoch, far above
\* every cooldown, so that the first attempt on every input is accepted
program_start_time == 100

Switches == {"targets_any", "bumper1", "bumper2", "target1", "target2",
             "target3", "goal_sensor", "ball_drain", "service_button"}
Gates == {"gate1", "gate2", "col", "jackpot_gate"}
Devices == {"targets_any", "bumper1", "bumper2", "gate1", "gate2",
            "ball_drain", "jackpot_gate"}

(***************************************************************************)
(* The high score file: its content is a sequence of characters.           *)
(***************************************************************************)
MISSING == "missing"
Digits == <<"0", "1", "2", "3", "4", "5", "6", "7", "8", "9">>
IsSpace(c) == c \in {" ", "\n"}
IsDigit(c) == \E i \in 1..10 : Digits[i] = c
DigitVal(c) == (CHOOSE i \in 1..10 : Digits[i] = c) - 1

\* str(n) for an integer n
RECURSIVE StrNat(_)
StrNat(n) == IF n < 10 THEN <<Digits[n + 1]>>
             ELSE Append(StrNat(n \div 10), Digits[(n % 10) + 1])
Str(n) == IF n < 0 THEN <<"-">> \o StrNat(0 - n) ELSE StrNat(n)

\* s.strip()
RECURSIVE LStrip(_)
LStrip(s) == IF s # <<>> /\ IsSpace(Head(s)) THEN LStrip(Tail(s)) ELSE s
RECURSIVE RStrip(_)
RStrip(s) == IF s # <<>> /\ IsSpace(s[Len(s)])
             THEN RStrip(SubSeq(s, 1, Len(s) - 1)) ELSE s
Strip(s) == RStrip(LStrip(s))

RECURSIVE DigitsVal(_)
DigitsVal(s) == IF s = <<>> THEN 0
                ELSE 10 * DigitsVal(SubSeq(s, 1, Len(s) - 1)) + DigitVal(s[Len(s)])
AllDigits(s) == s # <<>> /\ \A i \in 1..Len(s) : IsDigit(s[i])

\* int(text): [ok, val]; ok = FALSE stands for ValueError
PyInt(text) ==
    LET s == Strip(text)
        signed == s # <<>> /\ Head(s) \in {"-", "+"}
        body == IF signed THEN Tail(s) ELSE s
    IN IF AllDigits(body)
       THEN [ok |-> TRUE,
             val |-> IF signed /\ Head(s) = "-" THEN 0 - DigitsVal(body)
                     ELSE DigitsVal(body)]
       ELSE [ok |-> FALSE, val |-> 0]

\* load_high_score(): f is the file [content, readable]
load_high_score(f) ==
    IF f.content # MISSING
    THEN IF f.readable /\ PyInt(f.content).ok
         THEN PyInt(f.content).val
         ELSE 0
    ELSE 0

\* outcomes of open(HIGH_SCORE_FILE, "w") followed by f.write(...)
WriteResults == {"ok", "open_failed", "write_failed"}

\* save_high_score(score_value) with the outcome res of the write
save_high_score(f, score_value, res) ==
    CASE res = "ok" -> [f EXCEPT !.content = Str(score_value)]
      [] res = "open_failed" -> f
      [] res = "write_failed" ->
            \* the file was truncated by open(), the data never reached it
            [f EXCEPT !.content = <<>>]


(***************************************************************************)
(* State.                                                                  *)
(***************************************************************************)
VARIABLES
    now,                    \* time.time()
    pc,                     \* position of the main thread
    visit,                  \* which call of show_start_screen (1 or 2)
    current_mode,
    running,
    batch,                  \* events of this frame's batch handled so far
    score, high_score, balls_left, collected, mega_jackpot, debug_mode,
    drop_targets_down,      \* [1..3 -> BOOLEAN]
    last_hit, last_bumper_hit,
    ball_drain_last_state,
    file,                   \* HIGH_SCORE_FILE: [content, readable]
    USE_GPIO,
    sw,                     \* level of every physical switch
    gate_on,                \* output level of every solenoid gate
    pulses,                 \* bag of pulse_solenoid threads in flight
    closed,                 \* devices released by close()
    tm,                     \* locals of run_test_mode
    io_log,                 \* observation: "none", "ok" (every save so far
                            \* succeeded) or "failed" (some save failed)
    attempts,               \* observation: the first MaxLog debounced attempts
    last_attempt,           \* observation: the latest debounced attempt
    target_last_reading,    \* observation: each drop-target switch as read
                            \* by the previous poll
    goal_events,            \* observation: goal events since the last reset
    bonus_events,           \* observation: jackpot bonuses since the last reset
    attract_input,          \* observation: what ended the latest start screen
    test_fires              \* observation: per solenoid, when test mode last
                            \* started a pulse on it (-1: never)

vars == <<now, pc, visit, current_mode, running, batch, score, high_score, balls_left,
          collected, mega_jackpot, debug_mode, drop_targets_down, last_hit,
          last_bumper_hit, ball_drain_last_state, file, USE_GPIO, sw, gate_on,
          pulses, closed, tm, io_log, attempts, last_attempt,
          target_last_reading, goal_events, bonus_events, attract_input,
          test_fires>>

\* the globals the event handlers read and write, as one record
G == [now |-> now, score |-> score, high_score |-> high_score,
      balls_left |-> balls_left, collected |-> collected,
      mega_jackpot |-> mega_jackpot, debug_mode |-> debug_mode,
      drop_targets_down |-> drop_targets_down, last_hit |-> last_hit,
      last_bumper_hit |-> last_bumper_hit,
      ball_drain_last_state |-> ball_drain_last_state, file |-> file,
      pulses |-> pulses, io_log |-> io_log, attempts |-> attempts,
      last_attempt |-> last_attempt,
      target_last_reading |-> target_last_reading,
      goal_events |-> goal_events, bonus_events |-> bonus_events]

Commit(g) ==
    /\ now' = g.now
    /\ score' = g.score
    /\ high_score' = g.high_score
    /\ balls_left' = g.balls_left
    /\ collected' = g.collected
    /\ mega_jackpot' = g.mega_jackpot
    /\ debug_mode' = g.debug_mode
    /\ drop_targets_down' = g.drop_targets_down
    /\ last_hit' = g.last_hit
    /\ last_bumper_hit' = g.last_bumper_hit
    /\ ball_drain_last_state' = g.ball_drain_last_state
    /\ file' = g.file
    /\ pulses' = g.pulses
    /\ io_log' = g.io_log
    /\ attempts' = g.attempts
    /\ last_attempt' = g.last_attempt
    /\ target_last_reading' = g.target_last_reading
    /\ goal_events' = g.goal_events
    /\ bonus_events' = g.bonus_events

gameVars == <<now, score, high_score, balls_left, collected, mega_jackpot,
              debug_mode, drop_targets_down, last_hit, last_bumper_hit,
              ball_drain_last_state, file, pulses, io_log, attempts,
              last_attempt, target_last_reading, goal_events, bonus_events>>

\* time.sleep(d), pygame.time.wait(d)
Sleep(g, d) == [g EXCEPT !.now = @ + d]

\* threading.Thread(target=pulse_solenoid, args=(gate, pulse_time)).start()
\* the thread calls gate.on() at once (phase "new" until it has) and gate.off()
\* when its sleep ends, at off_at
NewPulse(gate, at, pulse_time) ==
    [gate |-> gate, phase |-> "new", at |-> at, off_at |-> at + pulse_time]
StartPulse(g, gate, pulse_time) ==
    [g EXCEPT !.pulses = @ (+) SetToBag({NewPulse(gate, g.now, pulse_time)})]

\* Steps happen in the order of their times, steps of the same time in any
\* order: the main thread, which resumes at `now`, waits for the steps of
\* the pulse threads that were due before `now`.
DueAt(p) == IF p.phase = "new" THEN p.at ELSE p.off_at
Overdue == \E p \in BagToSet(pulses) : DueAt(p) < now
At(position) == pc = position /\ ~Overdue

\* observation log of debounced attempts: <<input, time since start, accepted>>
\* last_attempt.n alternates, so that every attempt is a visible step
Logged(g, input, accepted) ==
    LET g1 == [g EXCEPT !.last_attempt =
                   [n |-> 1 - @.n, input |-> input, accepted |-> accepted]]
    IN IF Len(g.attempts) < MaxLog
       THEN [g1 EXCEPT !.attempts =
                 Append(@, <<input, g.now - program_start_time, accepted>>)]
       ELSE g1

(***************************************************************************)
(* Event handlers (game.py).  res, res2 are the outcomes of the writes of  *)
(* the high score file the handler may make.                               *)
(***************************************************************************)
NextLog(log, res) ==
    IF res = "ok" /\ log # "failed" THEN "ok" ELSE "failed"

update_high_score_stale(g, res) ==
    IF g.score > g.high_score
    THEN [g EXCEPT !.high_score = g.score, !.io_log = NextLog(@, res)]
    ELSE g
update_high_score_aborted(g, res) ==
    IF g.score > g.high_score
    THEN IF res = "ok"
         THEN [g EXCEPT !.high_score = g.score,
                        !.file = save_high_score(@, g.score, res),
                        !.io_log = NextLog(@, res)]
         ELSE [g EXCEPT !.file = save_high_score(@, g.score, res),
                        !.io_log = NextLog(@, res)]
    ELSE g
update_high_score(g, res) ==
    IF g.score > g.high_score
    THEN [g EXCEPT !.high_score = g.score,
                   !.file = save_high_score(@, g.score, res),
                   !.io_log = NextLog(@, res)]
    ELSE g

on_target_hit_strict(g, res) ==
    IF g.now - g.last_hit > HIT_COOLDOWN
    THEN LET g1 == [g EXCEPT !.score = @ + TARGET_AWARD]
             g2 == update_high_score(g1, res)
         IN Logged([g2 EXCEPT !.last_hit = g.now], "strike", TRUE)
    ELSE Logged(g, "strike", FALSE)
on_target_hit(g, res) ==
    IF g.now - g.last_hit >= HIT_COOLDOWN
    THEN LET g1 == [g EXCEPT !.score = @ + TARGET_AWARD]
             g2 == update_high_score(g1, res)
         IN Logged([g2 EXCEPT !.last_hit = g.now], "strike", TRUE)
    ELSE Logged(g, "strike", FALSE)

BumperName(bumper_id) == IF bumper_id = 1 THEN "bumper1" ELSE "bumper2"

on_bumper_hit_unstamped(g, bumper_id, res) ==
    IF g.now - g.last_bumper_hit[bumper_id] >= BUMPER_COOLDOWN
    THEN LET g1 == [g EXCEPT !.score = @ + BUMPER_AWARD]
             g2 == update_high_score(g1, res)
             g3 == g2
             gate == IF bumper_id = 1 THEN "gate1" ELSE "gate2"
         IN Logged(StartPulse(g3, gate, PULSE_TIME), BumperName(bumper_id), TRUE)
    ELSE Logged(g, BumperName(bumper_id), FALSE)
on_bumper_hit_shared(g, bumper_id, res) ==
    IF g.now - g.last_bumper_hit[bumper_id] >= BUMPER_COOLDOWN
    THEN LET g1 == [g EXCEPT !.score = @ + BUMPER_AWARD]
             g2 == update_high_score(g1, res)
             g3 == [g2 EXCEPT !.last_bumper_hit = [i \in 1..2 |-> g.now]]
             gate == IF bumper_id = 1 THEN "gate1" ELSE "gate2"
         IN Logged(StartPulse(g3, gate, PULSE_TIME), BumperName(bumper_id), TRUE)
    ELSE Logged(g, BumperName(bumper_id), FALSE)
on_bumper_hit_crossed(g, bumper_id, res) ==
    IF g.now - g.last_bumper_hit[bumper_id] >= BUMPER_COOLDOWN
    THEN LET g1 == [g EXCEPT !.score = @ + BUMPER_AWARD]
             g2 == update_high_score(g1, res)
             g3 == [g2 EXCEPT !.last_bumper_hit[bumper_id] = g.now]
             gate == IF bumper_id = 1 THEN "gate2" ELSE "gate1"
         IN Logged(StartPulse(g3, gate, PULSE_TIME), BumperName(bumper_id), TRUE)
    ELSE Logged(g, BumperName(bumper_id), FALSE)
on_bumper_hit(g, bumper_id, res) ==
    IF g.now - g.last_bumper_hit[bumper_id] >= BUMPER_COOLDOWN
    THEN LET g1 == [g EXCEPT !.score = @ + BUMPER_AWARD]
             g2 == update_high_score(g1, res)
             g3 == [g2 EXCEPT !.last_bumper_hit[bumper_id] = g.now]
             gate == IF bumper_id = 1 THEN "gate1" ELSE "gate2"
         IN Logged(StartPulse(g3, gate, PULSE_TIME), BumperName(bumper_id), TRUE)
    ELSE Logged(g, BumperName(bumper_id), FALSE)

on_goal_scored_sticky(g, res, res2) ==
    LET g1 == [g EXCEPT !.score = @ + GOAL_AWARD]
        g2 == update_high_score(g1, res)
        g3 == IF g2.collected < PIONEER_LEN
              THEN [g2 EXCEPT !.collected = @ + 1] ELSE g2
        g4 == [g3 EXCEPT !.goal_events = @ + 1]
    IN IF g4.collected = PIONEER_LEN
       THEN LET g5 == [g4 EXCEPT !.mega_jackpot = TRUE,
                                 !.score = @ + JACKPOT_AWARD,
                                 !.bonus_events = @ + 1]
            IN update_high_score(g5, res2)
       ELSE g4
on_goal_scored(g, res, res2) ==
    LET g1 == [g EXCEPT !.score = @ + GOAL_AWARD]
        g2 == update_high_score(g1, res)
        g3 == IF g2.collected < PIONEER_LEN
              THEN [g2 EXCEPT !.collected = @ + 1] ELSE g2
        g4 == [g3 EXCEPT !.goal_events = @ + 1]
    IN IF g4.collected = PIONEER_LEN
       THEN LET g5 == [g4 EXCEPT !.mega_jackpot = TRUE,
                                 !.score = @ + JACKPOT_AWARD,
                                 !.bonus_events = @ + 1]
                g6 == update_high_score(g5, res2)
            IN [g6 EXCEPT !.collected = 0, !.mega_jackpot = FALSE]
       ELSE g4

AllDown(d) == \A i \in 1..3 : d[i]

on_drop_target_hit_latched(g, target_num) ==
    LET idx == target_num
        g1 == IF ~g.drop_targets_down[idx]
              THEN [g EXCEPT !.drop_targets_down[idx] = TRUE] ELSE g
    IN IF AllDown(g1.drop_targets_down)
       THEN Sleep(StartPulse(g1, "jackpot_gate", BANK_PULSE_TIME), BANK_SETTLE)
       ELSE g1
on_drop_target_hit_scoring(g, target_num) ==
    LET idx == target_num
        g1 == IF ~g.drop_targets_down[idx]
              THEN [g EXCEPT !.drop_targets_down[idx] = TRUE,
                             !.score = @ + TARGET_AWARD]
              ELSE g
    IN IF AllDown(g1.drop_targets_down)
       THEN LET g2 == StartPulse(g1, "jackpot_gate", BANK_PULSE_TIME)
                g3 == [g2 EXCEPT !.drop_targets_down = [i \in 1..3 |-> FALSE]]
            IN Sleep(g3, BANK_SETTLE)
       ELSE g1
on_drop_target_hit(g, target_num) ==
    LET idx == target_num
        g1 == IF ~g.drop_targets_down[idx]
              THEN [g EXCEPT !.drop_targets_down[idx] = TRUE] ELSE g
    IN IF AllDown(g1.drop_targets_down)
       THEN LET g2 == StartPulse(g1, "jackpot_gate", BANK_PULSE_TIME)
                g3 == [g2 EXCEPT !.drop_targets_down = [i \in 1..3 |-> FALSE]]
            IN Sleep(g3, BANK_SETTLE)
       ELSE g1

on_ball_drained_unguarded(g) ==
    [g EXCEPT !.balls_left = @ - 1]
on_ball_drained(g) ==
    IF g.balls_left > 0 THEN [g EXCEPT !.balls_left = @ - 1] ELSE g

key_g_early(g, res) ==
    LET g1 == IF g.collected < PIONEER_LEN
              THEN [g EXCEPT !.collected = @ + 1] ELSE g
        g2 == [g1 EXCEPT !.goal_events = @ + 1]
    IN IF g2.collected >= PIONEER_LEN - 1
       THEN LET g3 == [g2 EXCEPT !.mega_jackpot = TRUE,
                                 !.score = @ + JACKPOT_AWARD,
                                 !.bonus_events = @ + 1]
                g4 == update_high_score(g3, res)
            IN [g4 EXCEPT !.collected = 0, !.mega_jackpot = FALSE]
       ELSE g2
key_g_sticky(g, res) ==
    LET g1 == IF g.collected < PIONEER_LEN
              THEN [g EXCEPT !.collected = @ + 1] ELSE g
        g2 == [g1 EXCEPT !.goal_events = @ + 1]
    IN IF g2.collected = PIONEER_LEN
       THEN LET g3 == [g2 EXCEPT !.mega_jackpot = TRUE,
                                 !.score = @ + JACKPOT_AWARD,
                                 !.bonus_events = @ + 1]
                g4 == update_high_score(g3, res)
            IN [g4 EXCEPT !.collected = 0]
       ELSE g2
\* handle_pygame_events, K_g
key_g(g, res) ==
    LET g1 == IF g.collected < PIONEER_LEN
              THEN [g EXCEPT !.collected = @ + 1] ELSE g
        g2 == [g1 EXCEPT !.goal_events = @ + 1]
    IN IF g2.collected = PIONEER_LEN
       THEN LET g3 == [g2 EXCEPT !.mega_jackpot = TRUE,
                                 !.score = @ + JACKPOT_AWARD,
                                 !.bonus_events = @ + 1]
                g4 == update_high_score(g3, res)
            IN [g4 EXCEPT !.collected = 0, !.mega_jackpot = FALSE]
       ELSE g2

\* handle_pygame_events, K_r and check_game_over: reset of the round
reset_round_forgetful(g) ==
    [g EXCEPT !.score = 0, !.high_score = 0, !.balls_left = START_BALLS,
              !.collected = 0, !.mega_jackpot = FALSE, !.goal_events = 0,
              !.bonus_events = 0]
reset_round_thorough(g) ==
    [g EXCEPT !.score = 0, !.balls_left = START_BALLS, !.collected = 0,
              !.mega_jackpot = FALSE, !.goal_events = 0, !.bonus_events = 0,
              !.drop_targets_down = [i \in 1..3 |-> FALSE],
              !.last_hit = 0, !.last_bumper_hit = [i \in 1..2 |-> 0]]
reset_round(g) ==
    [g EXCEPT !.score = 0, !.balls_left = START_BALLS, !.collected = 0,
              !.mega_jackpot = FALSE, !.goal_events = 0, !.bonus_events = 0]


(***************************************************************************)
(* Initial state: the module-level code of hardware.py and game.py up to   *)
(* the first call of show_start_screen.                                    *)
(***************************************************************************)
TmInit == [screen_index |-> 0, solenoid_index |-> 0, sound_index |-> 0,
           display_pattern |-> 0, test_volume |-> 10,
           last_solenoid_fire |-> [i \in 0..2 |-> 0], now |-> 0]

InitWith(files, gpio) ==
    /\ now = program_start_time
    /\ pc = "attract"
    /\ visit = 1
    /\ current_mode = "ATTRACT_MODE"
    /\ running = TRUE
    /\ batch = 0
    /\ score = 0
    /\ file \in files
    /\ high_score = load_high_score(file)
    /\ balls_left = START_BALLS
    /\ collected = 0
    /\ mega_jackpot = FALSE
    /\ debug_mode = FALSE
    /\ drop_targets_down = [i \in 1..3 |-> FALSE]
    /\ last_hit = 0
    /\ last_bumper_hit = [i \in 1..2 |-> 0]
    /\ ball_drain_last_state = FALSE
    /\ USE_GPIO \in gpio
    /\ sw = [s \in Switches |-> FALSE]
    /\ gate_on = [g \in Gates |-> FALSE]
    /\ pulses = EmptyBag
    /\ closed = {}
    /\ tm = TmInit
    /\ io_log = "none"
    /\ attempts = <<>>
    /\ last_attempt = [n |-> 0, input |-> "none", accepted |-> FALSE]
    /\ target_last_reading = [i \in 1..3 |-> FALSE]
    /\ goal_events = 0
    /\ bonus_events = 0
    /\ attract_input = "none"
    /\ test_fires = [i \in 0..2 |-> -1]

(***************************************************************************)
(* show_start_screen and the startup sequence (game.py 842-852).           *)
(* One iteration of the attract loop: a frame of duration d, the service   *)
(* button, then the first event e that decides ("none": no such event).    *)
(***************************************************************************)
\* what the startup sequence does with the mode show_start_screen returns
EnterMode(chosen) ==
    IF visit = 1 /\ chosen = "TEST_MODE"
    THEN /\ pc' = "test"
         /\ current_mode' = "TEST_MODE"
         /\ tm' = [TmInit EXCEPT !.now = now']
    ELSE /\ pc' = "events"
         /\ current_mode' = "GAMEPLAY_MODE"
         /\ tm' = tm

ShowStartScreen(E) ==
    /\ At("attract")
    /\ \E d \in E.frames, e \in E.attract :
        /\ now + d <= E.horizon
        /\ attract_input' = IF USE_GPIO /\ sw["service_button"]
                            THEN "service_button" ELSE e
        /\ IF USE_GPIO /\ sw["service_button"]
           THEN /\ now' = now + d
                /\ EnterMode("TEST_MODE")
           ELSE CASE e = "none" ->
                       /\ now' = now + d
                       /\ UNCHANGED <<pc, current_mode, tm>>
                  [] e = "QUIT" ->
                       /\ now' = now + d
                       /\ pc' = "exited"
                       /\ UNCHANGED <<current_mode, tm>>
                  [] e = "RETURN" ->
                       /\ now' = now + d + START_FADE
                       /\ EnterMode("GAMEPLAY_MODE")
                  [] e = "F9" ->
                       /\ now' = now + d
                       /\ EnterMode("TEST_MODE")
    /\ UNCHANGED <<visit, running, batch, score, high_score, balls_left,
                   collected,
                   mega_jackpot, debug_mode, drop_targets_down, last_hit,
                   last_bumper_hit, ball_drain_last_state, file, USE_GPIO, sw,
                   gate_on, pulses, closed, io_log, attempts, last_attempt,
                   target_last_reading, goal_events, bonus_events,
                   test_fires>>

(***************************************************************************)
(* run_test_mode.                                                          *)
(***************************************************************************)
\* One pass of `while running`: now = time.time(), then the KEYDOWN events
\* of the batch one by one (pc = "test"), then rendering and clock.tick(60).
SCREENS == 5
SOLENOIDS == 3
SOUNDS == 3
PATTERNS == 4
SOLENOID_TEST == 1
DISPLAY_TEST == 2
AUDIO_TEST == 3
\* SOLENOID_LIST
SolenoidGate(i) ==
    CASE i = 0 -> "gate1" [] i = 1 -> "gate2" [] OTHER -> "jackpot_gate"

fire_allowed_always(t) ==
    t.now >= t.last_solenoid_fire[t.solenoid_index]
\* the test-fire is let through
fire_allowed(t) ==
    t.now - t.last_solenoid_fire[t.solenoid_index] >= TEST_SOLENOID_COOLDOWN

\* the locals after K_LEFT / K_RIGHT have changed the screen
test_screen(t, k) ==
    [t EXCEPT !.screen_index =
        CASE k = "LEFT" -> (@ + SCREENS - 1) % SCREENS
          [] k = "RIGHT" -> (@ + 1) % SCREENS
          [] OTHER -> @]

\* the locals after one KEYDOWN event k other than K_ESCAPE
test_key(t, k) ==
    LET t1 == test_screen(t, k)
        screen == t1.screen_index
    IN CASE screen = SOLENOID_TEST ->
              CASE k = "UP" ->
                     [t1 EXCEPT !.solenoid_index = (@ + SOLENOIDS - 1) % SOLENOIDS]
                [] k = "DOWN" ->
                     [t1 EXCEPT !.solenoid_index = (@ + 1) % SOLENOIDS]
                [] k \in {"SPACE", "RETURN"} /\ fire_allowed(t1) ->
                     [t1 EXCEPT !.last_solenoid_fire[t1.solenoid_index] = t1.now]
                [] OTHER -> t1
         [] screen = AUDIO_TEST ->
              CASE k = "UP" ->
                     [t1 EXCEPT !.test_volume = IF @ + 1 > 10 THEN 10 ELSE @ + 1]
                [] k = "DOWN" ->
                     [t1 EXCEPT !.test_volume = IF @ - 1 < 0 THEN 0 ELSE @ - 1]
                [] k = "LEFT" ->
                     [t1 EXCEPT !.sound_index = (@ + SOUNDS - 1) % SOUNDS]
                [] k = "RIGHT" ->
                     [t1 EXCEPT !.sound_index = (@ + 1) % SOUNDS]
                [] OTHER -> t1
         [] screen = DISPLAY_TEST ->
              IF k \in {"LEFT", "RIGHT", "SPACE"}
              THEN [t1 EXCEPT !.display_pattern = (@ + 1) % PATTERNS]
              ELSE t1
         [] OTHER -> t1

\* the event fires the selected solenoid
test_fires_solenoid(t, k) ==
    LET t1 == test_screen(t, k)
    IN /\ t1.screen_index = SOLENOID_TEST
       /\ k \in {"SPACE", "RETURN"}
       /\ fire_allowed(t1)

TestKey_scoring(E) ==
    /\ At("test")
    /\ batch < MaxBatch
    /\ batch' = batch + 1
    /\ \E k \in E.testkeys :
        /\ tm' = test_key(tm, k)
        /\ Commit(IF k = "SPACE" THEN on_bumper_hit(G, 2, "ok") ELSE G)
        /\ test_fires' = test_fires
    /\ UNCHANGED <<pc, visit, current_mode, running, USE_GPIO, sw, gate_on,
                   closed, attract_input>>

\* run_test_mode: one KEYDOWN event of the batch
TestKey(E) ==
    /\ At("test")
    /\ batch < MaxBatch
    /\ batch' = batch + 1
    /\ \E k \in E.testkeys :
        /\ tm' = test_key(tm, k)
        /\ IF test_fires_solenoid(tm, k)
           THEN /\ Commit(StartPulse(G, SolenoidGate(tm.solenoid_index),
                                     TEST_SOLENOID_PULSE_TIME))
                /\ test_fires' = [test_fires EXCEPT ![tm.solenoid_index] = now]
           ELSE UNCHANGED <<gameVars, test_fires>>
    /\ UNCHANGED <<pc, visit, current_mode, running, USE_GPIO, sw, gate_on,
                   closed, attract_input>>

\* run_test_mode: the batch is exhausted; rendering, clock.tick(60), and the
\* next pass reads the time
TestFrame(E) ==
    /\ At("test")
    /\ \E d \in E.frames :
        /\ now + d <= E.horizon
        /\ Commit(Sleep(G, d))
        /\ tm' = [tm EXCEPT !.now = now + d]
    /\ batch' = 0
    /\ UNCHANGED <<pc, visit, current_mode, running, USE_GPIO, sw, gate_on,
                   closed, attract_input, test_fires>>

\* run_test_mode: K_ESCAPE, back to the start screen
TestExit ==
    /\ At("test")
    /\ pc' = "attract"
    /\ current_mode' = "ATTRACT_MODE"
    /\ visit' = 2
    /\ batch' = 0
    /\ UNCHANGED <<gameVars, running, USE_GPIO, sw, gate_on, closed,
                   tm, attract_input, test_fires>>

\* run_test_mode: QUIT, sys.exit()
TestQuit ==
    /\ At("test")
    /\ pc' = "exited"
    /\ UNCHANGED <<gameVars, visit, current_mode, running, batch, USE_GPIO,
                   sw, gate_on, closed, tm, attract_input, test_fires>>

\* test mode
TestMode(E) ==
    \/ TestKey(E)
    \/ TestFrame(E)
    \/ TestExit

(***************************************************************************)
(* The gameplay loop (game.py 853-858).                                    *)
(***************************************************************************)
mainVars == <<visit, current_mode, USE_GPIO, sw, gate_on, closed, tm,
              attract_input, test_fires>>

\* poll_hardware_inputs returns at once without hardware
AfterEvents == IF USE_GPIO THEN "poll_targets_any" ELSE "kbd"

\* handle_pygame_events: one KEYDOWN event of the batch
key_down(g, k, res) ==
    CASE k = "SPACE" -> on_bumper_hit(g, 2, res)
      [] k = "t" -> on_target_hit(g, res)
      [] k = "g" -> key_g(g, res)
      [] k = "b" -> on_ball_drained(g)
      [] k = "r" -> reset_round(g)
      [] k = "d" -> [g EXCEPT !.debug_mode = ~@]
      [] OTHER -> g

KeyDown(E) ==
    /\ At("events")
    /\ \E k \in E.keys, res \in E.writes :
        /\ k = "g" => score + JACKPOT_AWARD <= MaxScore
        /\ Commit(key_down(G, k, res))
    /\ batch < MaxBatch
    /\ batch' = batch + 1
    /\ UNCHANGED <<pc, running, mainVars>>

\* handle_pygame_events: the QUIT event, return False
QuitEvent ==
    /\ At("events")
    /\ running' = FALSE
    /\ batch' = 0
    /\ pc' = AfterEvents
    /\ UNCHANGED <<gameVars, mainVars>>

\* handle_pygame_events: the batch is exhausted, return True
EventsDone ==
    /\ At("events")
    /\ running' = TRUE
    /\ batch' = 0
    /\ pc' = AfterEvents
    /\ UNCHANGED <<gameVars, mainVars>>

\* poll_hardware_inputs: one `if <switch>.is_pressed:` statement
PollStep(at, switch, g, next) ==
    /\ At(at)
    /\ IF sw[switch] THEN Commit(g) ELSE UNCHANGED gameVars
    /\ pc' = next
    /\ UNCHANGED <<running, batch, mainVars>>

PollStrike(E) ==
    \E res \in E.writes :
        PollStep("poll_targets_any", "targets_any",
                 Sleep(on_target_hit(G, res), STRIKE_SLEEP), "poll_bumper1")

PollBumper1_edge(E) ==
    \E res \in E.writes :
        PollStep("poll_bumper1", "bumper1",
                 IF last_attempt.input = "bumper1" THEN G
                 ELSE Sleep(on_bumper_hit(G, 1, res), SWITCH_SLEEP),
                 "poll_bumper2")
PollBumper1(E) ==
    \E res \in E.writes :
        PollStep("poll_bumper1", "bumper1",
                 Sleep(on_bumper_hit(G, 1, res), SWITCH_SLEEP), "poll_bumper2")

PollBumper2(E) ==
    \E res \in E.writes :
        PollStep("poll_bumper2", "bumper2",
                 Sleep(on_bumper_hit(G, 2, res), SWITCH_SLEEP), "poll_target1")

\* `if targetN.is_pressed: on_drop_target_hit(N); time.sleep(0.1)`
poll_target(g, target_num, pressed) ==
    LET g0 == [g EXCEPT !.target_last_reading[target_num] = pressed]
    IN IF pressed
       THEN Sleep(on_drop_target_hit(g0, target_num), SWITCH_SLEEP)
       ELSE g0

PollTarget(at, target_num, switch, next) ==
    /\ At(at)
    /\ Commit(poll_target(G, target_num, sw[switch]))
    /\ pc' = next
    /\ UNCHANGED <<running, batch, mainVars>>

PollTarget1 == PollTarget("poll_target1", 1, "target1", "poll_target2")

PollTarget2 == PollTarget("poll_target2", 2, "target2", "poll_target3")

PollTarget3 == PollTarget("poll_target3", 3, "target3", "poll_goal")

PollGoal(E) ==
    \E res \in E.writes, res2 \in E.writes :
        PollStep("poll_goal", "goal_sensor",
                 Sleep(on_goal_scored(G, res, res2), GOAL_SLEEP), "poll_drain")

\* the drain sensor: a press is a reading that follows a released reading
poll_drain_level(g, current_drain_pressed) ==
    LET g1 == IF current_drain_pressed THEN on_ball_drained(g) ELSE g
    IN [g1 EXCEPT !.ball_drain_last_state = current_drain_pressed]
poll_drain(g, current_drain_pressed) ==
    LET g1 == IF current_drain_pressed /\ ~g.ball_drain_last_state
              THEN on_ball_drained(g) ELSE g
    IN [g1 EXCEPT !.ball_drain_last_state = current_drain_pressed]

PollDrain ==
    /\ At("poll_drain")
    /\ Commit(poll_drain(G, sw["ball_drain"]))
    /\ pc' = "kbd"
    /\ UNCHANGED <<running, batch, mainVars>>

\* handle_keyboard_test_hit: held is keys[pygame.K_RETURN]
KeyboardTestHit(E) ==
    /\ At("kbd")
    /\ \E held \in E.held, res \in E.writes :
        IF held THEN Commit(Sleep(on_target_hit(G, res), KBD_WAIT))
        ELSE UNCHANGED gameVars
    /\ pc' = "check"
    /\ UNCHANGED <<running, batch, mainVars>>

CheckGameOver_early ==
    /\ At("check")
    /\ IF balls_left <= 1
       THEN /\ pc' = "game_over"
            /\ Commit(Sleep(G, GAME_OVER_FADE))
       ELSE /\ pc' = "render"
            /\ UNCHANGED gameVars
    /\ UNCHANGED <<running, batch, mainVars>>

CheckGameOver_blind ==
    /\ At("check")
    /\ IF balls_left < 0
       THEN /\ pc' = "game_over"
            /\ Commit(Sleep(G, GAME_OVER_FADE))
       ELSE /\ pc' = "render"
            /\ UNCHANGED gameVars
    /\ UNCHANGED <<running, batch, mainVars>>

\* check_game_over: the test, and show_game_over_screen's fade-in
CheckGameOver ==
    /\ At("check")
    /\ IF balls_left <= 0
       THEN /\ pc' = "game_over"
            /\ Commit(Sleep(G, GAME_OVER_FADE))
       ELSE /\ pc' = "render"
            /\ UNCHANGED gameVars
    /\ UNCHANGED <<running, batch, mainVars>>

\* show_game_over_screen: RETURN ends the wait, check_game_over resets
GameOverAck ==
    /\ At("game_over")
    /\ Commit(reset_round(G))
    /\ pc' = "render"
    /\ UNCHANGED <<running, batch, mainVars>>

\* show_game_over_screen: the wait loop goes on (no event, or events other
\* than RETURN and QUIT, which are dropped) while the playfield moves
GameOverWait(E) ==
    /\ At("game_over")
    /\ \E d \in E.frames :
        /\ now + d <= E.horizon
        /\ Commit(Sleep(G, d))
    /\ IF USE_GPIO
       THEN \E s \in E.switches : sw' = [sw EXCEPT ![s] = ~@]
       ELSE sw' = sw
    /\ UNCHANGED <<pc, visit, current_mode, running, batch, USE_GPIO, gate_on,
                   closed, tm, attract_input, test_fires>>

\* show_game_over_screen: QUIT, sys.exit()
GameOverQuit ==
    /\ At("game_over")
    /\ pc' = "exited"
    /\ UNCHANGED <<gameVars, running, batch, mainVars>>

\* render_frame: clock.tick(60) ends the frame after d; then `while running`
RenderFrame(E) ==
    /\ At("render")
    /\ \E d \in E.frames :
        /\ now + d <= E.horizon
        /\ Commit(Sleep(G, d))
    /\ pc' = IF running THEN "events" ELSE "cleanup"
    /\ UNCHANGED <<running, batch, mainVars>>

\* clean exit (game.py 864-872)
CleanExit ==
    /\ At("cleanup")
    /\ closed' = Devices
    /\ pc' = "exited"
    /\ UNCHANGED <<gameVars, running, batch, visit, current_mode, USE_GPIO,
                   sw, gate_on, tm, attract_input, test_fires>>

(***************************************************************************)
(* pulse_solenoid, run by a detached daemon thread, and the playfield.     *)
(***************************************************************************)
threadVars == <<now, pc, visit, current_mode, running, batch, score, high_score,
                balls_left, collected, mega_jackpot, debug_mode,
                drop_targets_down, last_hit, last_bumper_hit,
                ball_drain_last_state, file, USE_GPIO, sw, closed, tm, io_log,
                attempts, last_attempt, target_last_reading, goal_events,
                bonus_events, attract_input, test_fires>>

SetGate_all(gate, level) ==
    gate_on' = IF USE_GPIO THEN [g \in Gates |-> level] ELSE gate_on
SetGate_wired(gate, level) ==
    gate_on' = [gate_on EXCEPT ![gate] = level]
\* gate.on() / gate.off(): MockGate does nothing
SetGate(gate, level) ==
    gate_on' = IF USE_GPIO THEN [gate_on EXCEPT ![gate] = level] ELSE gate_on

\* gate.on(), then time.sleep(pulse_time) begins
PulseOn ==
    /\ pc # "exited"
    /\ \E p \in BagToSet(pulses) :
        /\ p.phase = "new"
        /\ SetGate(p.gate, TRUE)
        /\ pulses' = (pulses (-) SetToBag({p}))
                     (+) SetToBag({[p EXCEPT !.phase = "on"]})
    /\ UNCHANGED threadVars

PulseOff_stuck ==
    /\ pc # "exited"
    /\ \E p \in BagToSet(pulses) :
        /\ p.phase = "on"
        /\ now >= p.off_at
        /\ pulses' = pulses (-) SetToBag({p})
    /\ UNCHANGED <<threadVars, gate_on>>
\* the sleep is over: gate.off(), the thread ends
PulseOff ==
    /\ pc # "exited"
    /\ \E p \in BagToSet(pulses) :
        /\ p.phase = "on"
        /\ now >= p.off_at
        /\ SetGate(p.gate, FALSE)
        /\ pulses' = pulses (-) SetToBag({p})
    /\ UNCHANGED threadVars

\* a physical switch closes or opens
SwitchChange(E) ==
    /\ pc \in {"attract", "test", "events"}
    /\ USE_GPIO
    /\ \E s \in E.switches : sw' = [sw EXCEPT ![s] = ~@]
    /\ UNCHANGED <<gameVars, pc, visit, current_mode, running, batch,
                   USE_GPIO, gate_on, closed, tm, attract_input, test_fires>>

(***************************************************************************)
(* Specifications: the program under an environment E                      *)
(*   keys     KEYDOWN events the operator sends during gameplay            *)
(*   attract  what the operator does on the start screen                   *)
(*   held     the readings of keys[K_RETURN] in handle_keyboard_test_hit   *)
(*   switches the playfield switches that are actuated                     *)
(*   frames   the durations of a frame                                     *)
(*   horizon  the time after which no frame ends                           *)
(*   writes   the outcomes of writing the high score file                  *)
(* A specification leaves out the steps its environment never enables.     *)
(***************************************************************************)
\* the gameplay loop without its inputs
GameLoop(E) ==
    \/ ShowStartScreen(E)
    \/ EventsDone
    \/ KeyboardTestHit(E)
    \/ CheckGameOver
    \/ RenderFrame(E)

\* poll_hardware_inputs with hardware present, and the playfield
Polling(E) ==
    \/ PollStrike(E)
    \/ PollBumper1(E)
    \/ PollBumper2(E)
    \/ PollTarget1
    \/ PollTarget2
    \/ PollTarget3
    \/ PollGoal(E)
    \/ PollDrain
    \/ SwitchChange(E)

\* the pulse threads
Pulses ==
    \/ PulseOn
    \/ PulseOff

\* the window is closed during gameplay
Quitting ==
    \/ QuitEvent
    \/ CleanExit

NoFile == [content |-> MISSING, readable |-> TRUE]

\* the strike plate and the bumpers, by keyboard and by hardware
EnvDebounce ==
    [keys |-> {"t"}, attract |-> {"RETURN"}, held |-> {FALSE},
     switches |-> {"bumper1", "bumper2"},
     frames |-> {10}, writes |-> {"ok"}, horizon |-> MaxTime]
InitDebounce == InitWith({NoFile}, {TRUE})
NextDebounce ==
    \/ GameLoop(EnvDebounce)
    \/ KeyDown(EnvDebounce)
    \/ Polling(EnvDebounce)
    \/ Pulses
SpecDebounce == InitDebounce /\ [][NextDebounce]_vars



(***************************************************************************)
(* Debounce and cooldown.                                                  *)
(***************************************************************************)
Cooldown(input) == IF input = "strike" THEN HIT_COOLDOWN ELSE BUMPER_COOLDOWN
Award(input) == IF input = "strike" THEN TARGET_AWARD ELSE BUMPER_AWARD
LastAcceptedIn(lh, lbh, input) ==
    CASE input = "strike" -> lh
      [] input = "bumper1" -> lbh[1]
      [] input = "bumper2" -> lbh[2]

\* C1: an attempt on the strike plate or a bumper at time now is accepted
\* (scores its award) iff now - lastAccepted(input) >= cooldown; an accepted
\* attempt records now as lastAccepted(input); a rejected one leaves the
\* score, the high score, every last-accepted time and every solenoid as
\* they were and starts no pulse.
C1_DebounceContract ==
    [][last_attempt' # last_attempt =>
        LET input == last_attempt'.input
            due == now - LastAcceptedIn(last_hit, last_bumper_hit, input)
                       >= Cooldown(input)
        IN /\ last_attempt'.accepted <=> due
           /\ due => /\ LastAcceptedIn(last_hit', last_bumper_hit', input) = now
                     /\ score' = score + Award(input)
           /\ ~due => /\ score' = score
                      /\ high_score' = high_score
                      /\ last_hit' = last_hit
                      /\ last_bumper_hit' = last_bumper_hit
                      /\ gate_on' = gate_on
                      /\ pulses' = pulses]_vars

\* a bumper attempt was rejected after accepted attempts on the strike plate
\* and on both bumpers
C1_Witness ==
    /\ last_attempt.input = "bumper1"
    /\ ~last_attempt.accepted
    /\ last_hit > 0
    /\ last_bumper_hit[1] > 0
    /\ last_bumper_hit[2] > 0

\* the attempt on the same input that precedes attempt j of the log (0: none)
PrevSame(j) ==
    LET same == {i \in 1..(j - 1) : attempts[i][1] = attempts[j][1]}
    IN IF same = {} THEN 0 ELSE CHOOSE i \in same : \A k \in same : k <= i

\* C2: of two successive attempts on one input, the first of them accepted,
\* the second is rejected when it comes less than the cooldown after the
\* first and accepted when it comes at least the cooldown after it; and
\* strike plate attempts at t, t + 0.3 s and t + 0.5 s, the first attempts
\* of a run and its only accepted ones, are accepted, rejected, accepted
\* and leave score = 1000.
C2_Scenario ==
    /\ Len(attempts) >= 3
    /\ \A i \in 1..3 : attempts[i][1] = "strike"
    /\ attempts[2][2] = attempts[1][2] + 30
    /\ attempts[3][2] = attempts[1][2] + 50
    /\ last_hit <= program_start_time + attempts[3][2]
    /\ last_bumper_hit = [i \in 1..2 |-> 0]
C2_TwoAttempts ==
    /\ \A j \in 1..Len(attempts) :
          LET i == PrevSame(j)
          IN (i # 0 /\ attempts[i][3]) =>
                (attempts[j][3] <=>
                    attempts[j][2] - attempts[i][2] >= Cooldown(attempts[j][1]))
    /\ C2_Scenario =>
          /\ attempts[1][3] /\ ~attempts[2][3] /\ attempts[3][3]
          /\ score = 1000

C2_Witness == C2_Scenario /\ score = 1000


(***************************************************************************)
(* The drop-target bank.                                                   *)
(***************************************************************************)
EnvBank ==
    [keys |-> {}, attract |-> {"RETURN"}, held |-> {FALSE},
     switches |-> {"target1", "target2", "target3"},
     frames |-> {10}, writes |-> {"ok"}, horizon |-> LongTime]
InitBank == InitWith({NoFile}, {TRUE})
NextBank ==
    \/ GameLoop(EnvBank)
    \/ Polling(EnvBank)
    \/ Pulses
SpecBank == InitBank /\ [][NextBank]_vars

PollPc(i) == CASE i = 1 -> "poll_target1"
               [] i = 2 -> "poll_target2"
               [] i = 3 -> "poll_target3"
TargetSwitch(i) == CASE i = 1 -> "target1"
                     [] i = 2 -> "target2"
                     [] i = 3 -> "target3"
\* the step calls on_drop_target_hit(i)
DropHit(i) == pc = PollPc(i) /\ pc' # pc /\ sw[TargetSwitch(i)]
\* target i is the only one not yet marked down
Completes(i) == \A j \in (1..3) \ {i} : drop_targets_down[j]
\* pulse threads in flight on a gate
OnGate(b, gate) ==
    LET ps == {p \in BagToSet(b) : p.gate = gate}
    IN BagCardinality([p \in ps |-> CopiesIn(p, b)])
ResetStarted == OnGate(pulses', "jackpot_gate") - OnGate(pulses, "jackpot_gate")

\* C3: a drop-target hit that marks the third target starts exactly one
\* pulse of the bank-reset solenoid and clears the three flags in the same
\* call, so that no state shows the three flags set; a hit that leaves
\* fewer than three targets marked starts no pulse and marks its target
\* (again, after a reset); no other step starts a reset pulse or changes a
\* flag.
C3_BankReset ==
    /\ [](~AllDown(drop_targets_down))
    /\ [][/\ \A i \in 1..3 :
               /\ (DropHit(i) /\ Completes(i)) =>
                     /\ ResetStarted = 1
                     /\ drop_targets_down' = [j \in 1..3 |-> FALSE]
               /\ (DropHit(i) /\ ~Completes(i)) =>
                     /\ ResetStarted = 0
                     /\ drop_targets_down' =
                            [drop_targets_down EXCEPT ![i] = TRUE]
          /\ (~\E i \in 1..3 : DropHit(i)) =>
                /\ ResetStarted <= 0
                /\ drop_targets_down' = drop_targets_down]_vars

\* the third target has just completed the bank: the pulse of the reset is
\* in flight and the flags are clear
C3_Witness ==
    /\ pc = "poll_goal"
    /\ OnGate(pulses, "jackpot_gate") = 1
    /\ target_last_reading = [i \in 1..3 |-> TRUE]
    /\ drop_targets_down = [i \in 1..3 |-> FALSE]

\* C4: a drop target is marked down only when its switch reads pressed after
\* having read released at the previous poll.
C4_EdgeTriggered ==
    [][\A i \in 1..3 :
          (DropHit(i) /\ ~drop_targets_down[i]) => ~target_last_reading[i]]_vars


(***************************************************************************)
(* The ball drain.                                                         *)
(***************************************************************************)
\* the game is over and acknowledged
GameOver ==
    \/ GameOverAck

EnvDrain ==
    [keys |-> {"b"}, attract |-> {"RETURN"}, held |-> {FALSE},
     switches |-> {"ball_drain"},
     frames |-> {10}, writes |-> {"ok"}, horizon |-> LongTime]
InitDrain == InitWith({NoFile}, {TRUE})
NextDrain ==
    \/ GameLoop(EnvDrain)
    \/ KeyDown(EnvDrain)
    \/ Polling(EnvDrain)
    \/ GameOver
SpecDrain == InitDrain /\ [][NextDrain]_vars

\* the step is the drain statement of poll_hardware_inputs
DrainPoll == pc = "poll_drain" /\ pc' # pc
RisingDrain == sw["ball_drain"] /\ ~ball_drain_last_state

\* C5: a poll decrements balls-remaining, by 1, exactly when the drain
\* sensor reads pressed after having read released at the previous poll and
\* balls-remaining is above 0; it remembers the reading; balls-remaining is
\* never below 0, and apart from the drain key no other step lowers it.
C5_DrainEdge ==
    /\ [](balls_left >= 0)
    /\ [][/\ DrainPoll =>
               /\ balls_left' = IF RisingDrain /\ balls_left > 0
                                THEN balls_left - 1 ELSE balls_left
               /\ ball_drain_last_state' = sw["ball_drain"]
          /\ balls_left' < balls_left =>
               /\ balls_left' = balls_left - 1
               /\ (DrainPoll /\ RisingDrain) \/ pc = "events"
          /\ ~DrainPoll => ball_drain_last_state' = ball_drain_last_state]_vars

\* the sensor, pressed at the previous poll, is still pressed and one ball
\* is gone
C5_Witness ==
    /\ pc = "poll_drain"
    /\ sw["ball_drain"]
    /\ ball_drain_last_state
    /\ balls_left = START_BALLS - 1

(***************************************************************************)
(* Goals and the jackpot.                                                  *)
(***************************************************************************)
EnvGoal ==
    [keys |-> {"g", "r"}, attract |-> {"RETURN"}, held |-> {FALSE},
     switches |-> {"goal_sensor"},
     frames |-> {10}, writes |-> {"ok"}, horizon |-> LongTime]
InitGoal == InitWith({NoFile}, {TRUE})
NextGoal ==
    \/ GameLoop(EnvGoal)
    \/ KeyDown(EnvGoal)
    \/ Polling(EnvGoal)
SpecGoal == InitGoal /\ [][NextGoal]_vars

\* the step calls on_goal_scored
GoalCall == pc = "poll_goal" /\ pc' # pc /\ sw["goal_sensor"]

\* C6: every call of the goal handler adds 2000 and advances the progress by
\* one; a call that brings the progress to 7 adds 10000 more and leaves the
\* progress at 0; the jackpot flag is false after every call and the
\* progress never exceeds 7.
C6_GoalHandler ==
    /\ [](collected \in 0..PIONEER_LEN)
    /\ [][GoalCall =>
            /\ score' = score + GOAL_AWARD
                          + (IF collected + 1 = PIONEER_LEN
                             THEN JACKPOT_AWARD ELSE 0)
            /\ collected' = IF collected + 1 = PIONEER_LEN
                            THEN 0 ELSE collected + 1
            /\ mega_jackpot' = FALSE]_vars

\* the goal handler has just paid the jackpot
C6_Witness ==
    /\ pc = "poll_drain"
    /\ collected = 0
    /\ score >= GOAL_AWARD + JACKPOT_AWARD
    /\ goal_events = PIONEER_LEN

\* C7: counting the goal events (goal sensor or G key) since the last reset,
\* the jackpot bonus has been paid once for every seven of them: not at all
\* before the 7th, once at the 7th, which leaves the progress at 0; and a
\* step adds the 10000 of the bonus exactly when it is such a 7th event.
C7_JackpotEverySeven ==
    /\ [](/\ bonus_events = goal_events \div PIONEER_LEN
          /\ collected = goal_events % PIONEER_LEN)
    /\ [][(score' >= score + JACKPOT_AWARD)
             <=> (goal_events' = goal_events + 1
                    /\ goal_events' % PIONEER_LEN = 0)]_vars

\* seven goal events since the last reset, by the sensor and by the key
C7_Witness ==
    /\ goal_events = PIONEER_LEN
    /\ bonus_events = 1
    /\ collected = 0
    /\ score = JACKPOT_AWARD + 3 * GOAL_AWARD


(***************************************************************************)
(* The high score and its file.                                            *)
(***************************************************************************)
SavedFile == [content |-> <<"1", "5", "0", "0">>, readable |-> TRUE]
LockedFile == [content |-> <<"7", "0", "0">>, readable |-> FALSE]
PaddedFile == [content |-> <<" ", "5", "0", "\n">>, readable |-> TRUE]
EmptyFile == [content |-> <<>>, readable |-> TRUE]
TextFile == [content |-> <<"x", "1">>, readable |-> TRUE]
MinusFile == [content |-> <<"-", "5">>, readable |-> TRUE]

EnvScore ==
    [keys |-> {"t", "SPACE", "g"}, attract |-> {"RETURN"}, held |-> {FALSE},
     switches |-> {"goal_sensor"},
     frames |-> {10}, writes |-> WriteResults, horizon |-> ScoreTime]
InitScore == InitWith({NoFile, SavedFile, LockedFile}, {TRUE})
NextScore ==
    \/ GameLoop(EnvScore)
    \/ KeyDown(EnvScore)
    \/ Polling(EnvScore)
    \/ Pulses
SpecScore == InitScore /\ [][NextScore]_vars

\* the file holds the decimal text of v
Stored(f, v) == IF f.content = MISSING THEN FALSE ELSE f.content = Str(v)

\* C8: a step that raises the score leaves the high score at least the
\* score: unchanged if the score does not exceed it, otherwise equal to the
\* score and, the write succeeding, with the file holding that value; no
\* other step writes the file, so that as long as every write has succeeded
\* the file holds the high score from the first write on.
C8_HighScoreTracksScore ==
    /\ [][/\ score' > score =>
               /\ high_score' >= score'
               /\ high_score' = IF score' > high_score
                                THEN score' ELSE high_score
               /\ (score' > high_score /\ io_log' = "ok") =>
                       Stored(file', score')
               /\ score' > high_score => io_log' # "none"
          /\ score' <= score => file' = file /\ high_score' = high_score]_vars
    /\ [](io_log = "ok" => /\ Stored(file, high_score)
                           /\ PyInt(file.content).val = high_score)

\* a goal has beaten the saved high score of 1500 and the file follows
C8_Witness ==
    /\ score = GOAL_AWARD
    /\ high_score = GOAL_AWARD
    /\ io_log = "ok"
    /\ file = [content |-> <<"2", "0", "0", "0">>, readable |-> TRUE]
    /\ collected = 1

EnvReset ==
    [keys |-> {"g", "r", "b"}, attract |-> {"RETURN"}, held |-> {FALSE},
     switches |-> {"goal_sensor"},
     frames |-> {10}, writes |-> WriteResults, horizon |-> ResetTime]
InitReset == InitWith({NoFile, SavedFile}, {TRUE})
NextReset ==
    \/ GameLoop(EnvReset)
    \/ KeyDown(EnvReset)
    \/ Polling(EnvReset)
    \/ GameOver
SpecReset == InitReset /\ [][NextReset]_vars

\* the step that leaves the game-over screen on acknowledgement
GameOverReset == pc = "game_over" /\ pc' = "render"

\* C9: no step lowers the high score; a step that lowers the score (the R
\* key, the reset after game over) sets it to 0 and leaves the high score
\* and its file as they were, and so does the game-over reset in any case.
C9_HighScoreMonotone ==
    [][/\ high_score' >= high_score
       /\ score' < score =>
            /\ score' = 0
            /\ high_score' = high_score
            /\ file' = file
       /\ GameOverReset =>
            /\ score' = 0
            /\ balls_left' = START_BALLS
            /\ collected' = 0
            /\ high_score' = high_score
            /\ file' = file]_vars

\* a round has been reset after a high score was made
C9_Witness ==
    /\ pc = "render"
    /\ score = 0
    /\ balls_left = START_BALLS
    /\ high_score = GOAL_AWARD + JACKPOT_AWARD
    /\ io_log # "none"
    /\ now >= program_start_time + START_FADE + GAME_OVER_FADE

(***************************************************************************)
(* Loading the high score at startup.                                      *)
(***************************************************************************)
StartFiles ==
    {NoFile, SavedFile, LockedFile, PaddedFile, EmptyFile, TextFile, MinusFile}
EnvLoad ==
    [keys |-> {"t"}, attract |-> {"RETURN"}, held |-> {FALSE},
     switches |-> {"ball_drain"},
     frames |-> {10}, writes |-> {"ok"}, horizon |-> MaxTime + 20]
InitLoad == InitWith(StartFiles, {TRUE})
NextLoad ==
    \/ GameLoop(EnvLoad)
    \/ KeyDown(EnvLoad)
    \/ Polling(EnvLoad)
SpecLoad == InitLoad /\ [][NextLoad]_vars

\* the file holds one non-negative integer
HoldsNat(f) == f.content # MISSING /\ f.readable /\ AllDigits(Strip(f.content))

\* C10: until the first write the high score is the value the file held at
\* startup if that is one non-negative integer and 0 otherwise, hence never
\* negative; and with no file at startup, the file holds 1500 once the score
\* has reached 1500.
C10_LoadedHighScore ==
    /\ io_log = "none" =>
          high_score = IF HoldsNat(file)
                       THEN DigitsVal(Strip(file.content)) ELSE 0
    /\ high_score >= 0
    /\ (io_log = "ok" /\ score = 1500 /\ high_score = 1500)
          => file.content = <<"1", "5", "0", "0">>


(***************************************************************************)
(* Failed writes of the high score.                                        *)
(***************************************************************************)
\* the positions of the main thread inside the game loop
LoopPositions ==
    {"events", "poll_targets_any", "poll_bumper1", "poll_bumper2", "poll_target1",
     "poll_target2", "poll_target3", "poll_goal", "poll_drain", "kbd",
     "check", "render"}

\* C11: a scoring step whose score exceeds the high score sets the high
\* score to the score whether or not the write succeeds, leaves the file
\* holding the new value, the value written before the jackpot bonus of the
\* same call, its old content or nothing, and stays inside the
\* running game loop; after a failed write the loop is still running, and
\* the file differs from the high score only if some write has failed.
C11_WriteFailureSwallowed ==
    /\ [][score' > high_score =>
            /\ high_score' = score'
            /\ \/ Stored(file', score')
               \/ Stored(file', score' - JACKPOT_AWARD)
               \/ file' = file
               \/ file' = [file EXCEPT !.content = <<>>]
            /\ running' = running
            /\ pc' \in LoopPositions]_vars
    /\ [](io_log = "failed" => running /\ pc \in LoopPositions)
    /\ []((io_log # "none" /\ ~Stored(file, high_score))
             => io_log = "failed")

\* a write has failed, the score and the high score went up all the same,
\* and the file lags behind while the frame goes on
C11_Witness ==
    /\ io_log = "failed"
    /\ pc = "render"
    /\ score = GOAL_AWARD + BUMPER_AWARD
    /\ high_score = score
    /\ file = SavedFile


(***************************************************************************)
(* The start screen and the service entries.                               *)
(***************************************************************************)
EnvService ==
    [keys |-> {}, attract |-> {"none", "RETURN", "F9"}, held |-> {FALSE},
     switches |-> {"service_button"}, testkeys |-> {"RIGHT"},
     frames |-> {10}, writes |-> {"ok"}, horizon |-> MaxTime]
InitService == InitWith({NoFile}, {TRUE, FALSE})
NextService ==
    \/ GameLoop(EnvService)
    \/ Polling(EnvService)
    \/ TestMode(EnvService)
SpecService == InitService /\ [][NextService]_vars

\* the step ends a pass of the start screen's loop
StartScreenPass == pc = "attract" /\ now' # now

\* C12: a pass of the start screen that sees a diagnostic entry (the service
\* button pressed with hardware present, or the F9 key) is followed by test
\* mode, on the first visit and on the visit after test mode.
C12_DiagnosticEntry ==
    [][(StartScreenPass /\ attract_input' \in {"service_button", "F9"})
          => (pc' = "test" /\ current_mode' = "TEST_MODE")]_vars


\* C15: test mode is left only for the start screen (mode Attract), never
\* directly for gameplay, and the start screen is left for gameplay only by
\* a pass that saw the ENTER key.
C15_TestExitAndStart ==
    [][/\ (pc = "test" /\ pc' # "test") =>
            (pc' = "attract" /\ current_mode' = "ATTRACT_MODE")
       /\ (pc = "attract" /\ current_mode' = "GAMEPLAY_MODE") =>
            attract_input' = "RETURN"]_vars

(***************************************************************************)
(* Game over.                                                              *)
(***************************************************************************)
\* the game-over screen with its wait
GameOverScreen(E) ==
    \/ GameOverWait(E)
    \/ GameOverAck

EnvGameOver ==
    [keys |-> {"b", "g"}, attract |-> {"RETURN"}, held |-> {FALSE},
     switches |-> {"ball_drain", "goal_sensor"},
     frames |-> {10}, writes |-> {"ok"}, horizon |-> GameOverTime]
InitGameOver == InitWith({NoFile, SavedFile}, {TRUE})
NextGameOver ==
    \/ GameLoop(EnvGameOver)
    \/ KeyDown(EnvGameOver)
    \/ Polling(EnvGameOver)
    \/ GameOverScreen(EnvGameOver)
SpecGameOver == InitGameOver /\ [][NextGameOver]_vars

\* the step is the test of check_game_over
GameOverCheck == pc = "check" /\ pc' # pc

\* C13: the per-frame check shows the game-over screen exactly when
\* balls-remaining is 0; while the screen is up no step changes the score
\* state or reads a switch, and the only step that leaves it is the
\* acknowledgement, after which score = 0, progress = 0, the jackpot flag is
\* false, balls-remaining = 2 and the high score is what it was.
C13_GameOver ==
    [][/\ GameOverCheck => (pc' = "game_over" <=> balls_left = 0)
       /\ pc' = "game_over" => pc \in {"check", "game_over"}
       /\ (pc = "game_over" /\ pc' = "game_over") =>
            UNCHANGED <<score, high_score, balls_left, collected, mega_jackpot,
                        drop_targets_down, last_hit, last_bumper_hit,
                        ball_drain_last_state, file, goal_events, pulses>>
       /\ (pc = "game_over" /\ pc' # "game_over") =>
            /\ pc' = "render"
            /\ score' = 0
            /\ collected' = 0
            /\ mega_jackpot' = FALSE
            /\ balls_left' = START_BALLS
            /\ high_score' = high_score
            /\ file' = file]_vars

\* the game-over screen was acknowledged although the drain and goal
\* switches closed while it was up
C13_Witness ==
    /\ pc = "render"
    /\ sw["goal_sensor"]
    /\ sw["ball_drain"]
    /\ score = 0
    /\ balls_left = START_BALLS
    /\ high_score = GOAL_AWARD
    /\ now >= program_start_time + START_FADE + GAME_OVER_FADE + 20


\* SystemMode
Modes == {"ATTRACT_MODE", "GAMEPLAY_MODE", "TEST_MODE"}

\* C14: the mode is always one of Attract, Gameplay, Test and GameOver and
\* is GameOver while the game-over screen is up; the acknowledgement leads
\* to the start screen, and gameplay follows only from there.
C14_GameOverViaAttract ==
    /\ [](current_mode \in Modes \cup {"GAMEOVER_MODE"})
    /\ [](pc = "game_over" => current_mode = "GAMEOVER_MODE")
    /\ [][(pc = "game_over" /\ pc' # "game_over") => pc' = "attract"]_vars


(***************************************************************************)
(* Test mode.                                                              *)
(***************************************************************************)
EnvTest ==
    [keys |-> {}, attract |-> {"RETURN", "F9"}, held |-> {FALSE},
     switches |-> {"bumper1"},
     testkeys |-> {"RIGHT", "DOWN", "SPACE"},
     frames |-> {10}, writes |-> {"ok"}, horizon |-> TestTime]
InitTest == InitWith({SavedFile}, {TRUE})
NextTest ==
    \/ GameLoop(EnvTest)
    \/ Polling(EnvTest)
    \/ TestMode(EnvTest)
    \/ Pulses
SpecTest == InitTest /\ [][NextTest]_vars

\* C16: no step taken in test mode (a key, a pass of its loop, a switch
\* changing, a pulse going on or off, the exit) changes the score, the high
\* score or its file, balls-remaining, the progress, the jackpot flag, the
\* drop-target flags or the gameplay debounce timestamps.
C16_TestModeIsolated ==
    [][pc = "test" =>
         UNCHANGED <<score, high_score, file, balls_left, collected,
                     mega_jackpot, drop_targets_down, last_hit,
                     last_bumper_hit, ball_drain_last_state>>]_vars

\* in test mode, with a saved high score, switches closed and a test pulse
\* in flight
C16_Witness ==
    /\ pc = "test"
    /\ high_score = 1500
    /\ sw["bumper1"]
    /\ tm.screen_index = SOLENOID_TEST
    /\ OnGate(pulses, "gate2") = 1

\* the step starts a pulse on solenoid i
PulseStarted(i) ==
    OnGate(pulses', SolenoidGate(i)) > OnGate(pulses, SolenoidGate(i))

\* C17: a pulse that test mode starts on a solenoid comes at least
\* TEST_SOLENOID_COOLDOWN after the previous one it started on that
\* solenoid; and the cooldown stamp of each solenoid is the time of the last
\* test pulse on that solenoid alone.
C17_TestFireCooldown ==
    /\ [][\A i \in 0..(SOLENOIDS - 1) :
            (pc = "test" /\ PulseStarted(i)) =>
               \/ test_fires[i] = -1
               \/ now - test_fires[i] >= TEST_SOLENOID_COOLDOWN]_vars
    /\ [](\A i \in 0..(SOLENOIDS - 1) :
            tm.last_solenoid_fire[i] =
               IF test_fires[i] = -1 THEN 0 ELSE test_fires[i])

\* solenoid 0 was test-fired twice, and solenoid 1 less than the cooldown
\* after the second time
C17_Witness ==
    /\ pc = "test"
    /\ test_fires[0] >= program_start_time + SWITCH_SLEEP + TEST_SOLENOID_COOLDOWN
    /\ test_fires[1] > test_fires[0]
    /\ test_fires[1] - test_fires[0] < TEST_SOLENOID_COOLDOWN


(***************************************************************************)
(* Pulses and the end of the process.                                      *)
(***************************************************************************)
\* a frame of clock.tick(60), about 17 ms
ShortFrame == 2
EnvQuit ==
    [keys |-> {"SPACE"}, attract |-> {"RETURN"}, held |-> {FALSE},
     switches |-> {"bumper1"},
     frames |-> {ShortFrame}, writes |-> {"ok"}, horizon |-> QuitTime]
InitQuit == InitWith({NoFile}, {TRUE})
NextQuit ==
    \/ GameLoop(EnvQuit)
    \/ KeyDown(EnvQuit)
    \/ Polling(EnvQuit)
    \/ Pulses
    \/ Quitting
SpecQuit == InitQuit /\ [][NextQuit]_vars
\* the main thread and the pulse threads are scheduled as long as they can
\* take a step
MainThread(E) ==
    \/ GameLoop(E)
    \/ PollStrike(E) \/ PollBumper1(E) \/ PollBumper2(E)
    \/ PollTarget1 \/ PollTarget2 \/ PollTarget3
    \/ PollGoal(E) \/ PollDrain
SpecQuitFair ==
    /\ SpecQuit
    /\ WF_vars(MainThread(EnvQuit))
    /\ WF_vars(Pulses)

\* a pulse has switched gate on, and its end lies within the modelled time
SwitchedOn(gate) ==
    \E p \in BagToSet(pulses) :
        p.gate = gate /\ p.phase = "on" /\ p.off_at <= QuitTime - ShortFrame
\* no pulse holds gate on
Released(gate) ==
    \A p \in BagToSet(pulses) : ~(p.gate = gate /\ p.phase = "on")

\* C18: a pulse that has switched its solenoid on eventually switches it
\* off, whatever the main thread does meanwhile, the end of the main loop
\* and of the process included.
C18_PulseCompletes ==
    \A gate \in {"gate1", "gate2"} : SwitchedOn(gate) ~> Released(gate)


(***************************************************************************)
(* The awards and pulses of accepted hits.                                 *)
(***************************************************************************)
\* the pulses the step starts on gate
Started(gate) == OnGate(pulses', gate) - OnGate(pulses, gate)
OwnGate(input) == IF input = "bumper1" THEN "gate1" ELSE "gate2"

\* C19: an accepted hit on bumper i adds 100 to the score and starts one
\* pulse on gate i and none on any other solenoid; an accepted hit on the
\* strike plate adds 500 and starts no pulse.
C19_AcceptedHitEffects ==
    [][(last_attempt' # last_attempt /\ last_attempt'.accepted) =>
         IF last_attempt'.input = "strike"
         THEN /\ score' = score + TARGET_AWARD
              /\ pulses' = pulses
         ELSE /\ score' = score + BUMPER_AWARD
              /\ \A gate \in Gates :
                    Started(gate) =
                       IF gate = OwnGate(last_attempt'.input) THEN 1 ELSE 0]_vars

\* hits on the strike plate, bumper 1 and bumper 2 were accepted, the one on
\* bumper 1 last, and its pulse has not begun yet
C19_Witness ==
    /\ last_attempt.input = "bumper1"
    /\ last_attempt.accepted
    /\ score = TARGET_AWARD + 2 * BUMPER_AWARD
    /\ \E p \in BagToSet(pulses) : p.gate = "gate1" /\ p.phase = "new"


\* the pulses in flight on the gates other than gate
Others(b, gate) ==
    LET ps == {p \in BagToSet(b) : p.gate # gate}
    IN [p \in ps |-> CopiesIn(p, b)]

\* C20: a step that switches a solenoid on or off is a step of a pulse on
\* that solenoid: it changes no other solenoid, no pulse on another
\* solenoid and nothing of the main thread; a step of the main thread
\* switches no solenoid and keeps every pulse in flight; and a key event
\* that starts a pulse takes no time.
C20_PulsesIndependent ==
    [][/\ gate_on' # gate_on =>
            \E gate \in Gates :
               /\ \A h \in Gates \ {gate} : gate_on'[h] = gate_on[h]
               /\ Others(pulses', gate) = Others(pulses, gate)
               /\ UNCHANGED threadVars
       /\ (pc' # pc \/ score' # score \/ now' # now) =>
            /\ gate_on' = gate_on
            /\ \A p \in BagToSet(pulses) : CopiesIn(p, pulses') >= CopiesIn(p, pulses)
       /\ (pc = "events" /\ pc' = "events" /\ BagToSet(pulses') # BagToSet(pulses)
              /\ gate_on' = gate_on) => now' = now]_vars

\* gate 2 is on since the SPACE key; two frames into that pulse the main
\* thread scored a hit on bumper 1, and gate 1 is on as well
C20_Witness ==
    /\ gate_on["gate1"]
    /\ gate_on["gate2"]
    /\ score = 2 * BUMPER_AWARD
    /\ \E p1, p2 \in BagToSet(pulses) :
          /\ p1.gate = "gate1" /\ p1.phase = "on"
          /\ p2.gate = "gate2" /\ p2.phase = "on"
          /\ p1.at >= p2.at + 2 * ShortFrame
          /\ p1.at < p2.off_at


(***************************************************************************)
(* Independence of the debounced inputs.                                   *)
(***************************************************************************)
DebouncedInputs == {"strike", "bumper1", "bumper2"}

\* C21: an attempt on one debounced input, accepted or rejected, leaves the
\* last-accepted time of every other input as it was, and is accepted or
\* rejected by its own last-accepted time alone.
C21_CooldownsIndependent ==
    [][last_attempt' # last_attempt =>
        LET input == last_attempt'.input
        IN /\ \A other \in DebouncedInputs \ {input} :
                 LastAcceptedIn(last_hit', last_bumper_hit', other)
                    = LastAcceptedIn(last_hit, last_bumper_hit, other)
           /\ last_attempt'.accepted <=>
                 now - LastAcceptedIn(last_hit, last_bumper_hit, input)
                    >= Cooldown(input)]_vars

\* bumper 2 was accepted inside the cooldowns of the strike plate and of
\* bumper 1
C21_Witness ==
    /\ last_attempt.input = "bumper2"
    /\ last_attempt.accepted
    /\ last_bumper_hit[2] > last_bumper_hit[1]
    /\ last_bumper_hit[2] > last_hit
    /\ last_hit > 0
    /\ last_bumper_hit[1] > 0
    /\ last_bumper_hit[2] - last_bumper_hit[1] < BUMPER_COOLDOWN
    /\ last_bumper_hit[2] - last_hit < HIT_COOLDOWN


(***************************************************************************)
(* Without the GPIO library: MockButton and MockGate.                      *)
(***************************************************************************)
EnvMock ==
    [keys |-> {"SPACE", "g", "b"}, attract |-> {"RETURN"},
     held |-> {FALSE, TRUE}, switches |-> {},
     frames |-> {10}, writes |-> {"ok"}, horizon |-> MaxTime]
InitMock == InitWith({NoFile}, {FALSE})
NextMock ==
    \/ GameLoop(EnvMock)
    \/ KeyDown(EnvMock)
    \/ GameOver
    \/ Pulses
SpecMock == InitMock /\ [][NextMock]_vars

\* the positions of poll_hardware_inputs behind its `if not USE_GPIO: return`
PollPositions ==
    {"poll_targets_any", "poll_bumper1", "poll_bumper2", "poll_target1",
     "poll_target2", "poll_target3", "poll_goal", "poll_drain"}

\* C22: without hardware every switch reads not pressed and no solenoid is
\* ever on, the polling statements are never reached, and score, progress
\* and balls change only where the keyboard is read: KEYDOWN events, the
\* held ENTER key, and the acknowledgement of the game-over screen.
C22_MockHardwareInert ==
    /\ [](~USE_GPIO =>
            /\ \A s \in Switches : ~sw[s]
            /\ \A g \in Gates : ~gate_on[g]
            /\ pc \notin PollPositions)
    /\ [][(~USE_GPIO /\ <<score, collected, balls_left>>'
                          # <<score, collected, balls_left>>)
            => pc \in {"events", "kbd", "game_over"}]_vars

\* a SPACE key scored and its pulse is past gate.on() with the gate off
C22_Witness ==
    /\ ~USE_GPIO
    /\ score >= BUMPER_AWARD
    /\ pc = "kbd"
    /\ \E p \in BagToSet(pulses) : p.phase = "on" /\ ~gate_on[p.gate]


(***************************************************************************)
(* The ways the operator ends the process.                                 *)
(***************************************************************************)
EnvShutdown ==
    [keys |-> {}, attract |-> {"RETURN", "F9", "QUIT"}, held |-> {FALSE},
     switches |-> {"ball_drain"}, testkeys |-> {"RIGHT"},
     frames |-> {10}, writes |-> {"ok"}, horizon |-> GameOverTime]
InitShutdown == InitWith({NoFile}, {TRUE})
NextShutdown ==
    \/ GameLoop(EnvShutdown)
    \/ Polling(EnvShutdown)
    \/ TestMode(EnvShutdown)
    \/ TestQuit
    \/ GameOverScreen(EnvShutdown)
    \/ GameOverQuit
    \/ Quitting
SpecShutdown == InitShutdown /\ [][NextShutdown]_vars

\* C23: when the process has ended by a quit of the operator, every switch
\* and every solenoid created at startup has been closed.
C23_AllReleased ==
    pc = "exited" => closed = Switches \cup Gates


(***************************************************************************)
(* The jackpot flag.                                                       *)
(***************************************************************************)
\* C24: the jackpot flag is false whenever a handler has returned and
\* whenever a frame is rendered: it is set and cleared inside the jackpot
\* branch of the goal handler and of the G key.
C24_JackpotFlagMomentary ==
    mega_jackpot = FALSE

\* a frame is rendered right after the G key paid the jackpot
C24_Witness ==
    /\ pc = "render"
    /\ bonus_events = 1
    /\ score = JACKPOT_AWARD
    /\ ~mega_jackpot


(***************************************************************************)
(* The ranges of the score state.                                          *)
(***************************************************************************)
\* C25: the score is never negative, the balls left are between 0 and 2 and
\* the progress is between 0 and 7, in every state.
C25_Ranges ==
    /\ score >= 0
    /\ balls_left \in 0..START_BALLS
    /\ collected \in 0..PIONEER_LEN

\* no ball left, six letters lit and a goal scored: the next drain and the
\* next letter are the cases at the ends of the ranges
C25_Witness ==
    /\ balls_left = 0
    /\ collected = PIONEER_LEN - 1
    /\ score >= GOAL_AWARD
    /\ pc = "events"


(***************************************************************************)
(* What each handler may change.                                           *)
(***************************************************************************)
EnvDelta ==
    [keys |-> {"g", "r", "b"}, attract |-> {"RETURN"},
     held |-> {FALSE},
     switches |-> {"targets_any", "bumper1", "target1", "goal_sensor"},
     frames |-> {30}, writes |-> {"ok"}, horizon |-> ResetTime]
InitDelta == InitWith({NoFile}, {TRUE})
NextDelta ==
    \/ GameLoop(EnvDelta)
    \/ KeyDown(EnvDelta)
    \/ Polling(EnvDelta)
    \/ Pulses
    \/ GameOver
SpecDelta == InitDelta /\ [][NextDelta]_vars

\* the step runs the strike plate handler or the bumper handler
HitCall ==
    \/ pc \in {"poll_targets_any", "poll_bumper1", "poll_bumper2", "kbd"}
    \/ last_attempt' # last_attempt
\* the step runs the drop target handler or the drain handler
DropOrDrainCall ==
    \/ pc \in {"poll_target1", "poll_target2", "poll_target3", "poll_drain"}
    \/ balls_left' < balls_left

\* C26: a step changes the score only by +500 (strike plate), +100 (bumper),
\* +2000 or +12000 (goal sensor, the latter on the 7th letter), +10000 (G
\* key on the 7th letter) or back to 0 (R key, game-over acknowledgement);
\* the drop target and drain handlers leave score, high score and progress
\* alone; the strike plate and bumper handlers leave balls, progress and the
\* drop target flags alone.
C26_ScoreDeltas ==
    [][/\ score' # score =>
            \/ /\ score' = score + TARGET_AWARD
               /\ pc \in {"poll_targets_any", "kbd", "events"}
               /\ last_attempt'.input = "strike"
            \/ /\ score' = score + BUMPER_AWARD
               /\ pc \in {"poll_bumper1", "poll_bumper2", "events"}
               /\ last_attempt'.input \in {"bumper1", "bumper2"}
            \/ /\ score' = score + GOAL_AWARD
               /\ GoalCall
               /\ collected' = collected + 1
            \/ /\ score' = score + GOAL_AWARD + JACKPOT_AWARD
               /\ GoalCall
               /\ collected = PIONEER_LEN - 1
            \/ /\ score' = score + JACKPOT_AWARD
               /\ pc = "events"
               /\ collected = PIONEER_LEN - 1
            \/ /\ score' = 0
               /\ pc \in {"events", "game_over"}
       /\ DropOrDrainCall => UNCHANGED <<score, high_score, collected>>
       /\ HitCall => UNCHANGED <<balls_left, collected, drop_targets_down>>]_vars

\* strike plate, bumper and the goal of the 7th letter have scored after a
\* drop target fell and a ball drained
C26_Witness ==
    /\ score = TARGET_AWARD + BUMPER_AWARD + GOAL_AWARD + JACKPOT_AWARD
    /\ drop_targets_down[1]
    /\ balls_left = START_BALLS - 1
    /\ collected = 0


(***************************************************************************)
(* Switches that stay closed.                                              *)
(***************************************************************************)
EnvHeld ==
    [keys |-> {}, attract |-> {"RETURN"}, held |-> {FALSE},
     switches |-> {"targets_any", "bumper1"},
     frames |-> {10}, writes |-> {"ok"}, horizon |-> MaxTime]
InitHeld == InitWith({NoFile}, {TRUE})
NextHeld ==
    \/ GameLoop(EnvHeld)
    \/ Polling(EnvHeld)
    \/ Pulses
SpecHeld == InitHeld /\ [][NextHeld]_vars

LevelSwitch(input) ==
    CASE input = "strike" -> "targets_any"
      [] input = "bumper1" -> "bumper1"
      [] input = "bumper2" -> "bumper2"
LevelPoll(input) ==
    CASE input = "strike" -> "poll_targets_any"
      [] input = "bumper1" -> "poll_bumper1"
      [] input = "bumper2" -> "poll_bumper2"

\* C27: every poll of the strike plate or of a bumper that reads the switch
\* pressed is an attempt on that input, whatever the previous poll read, and
\* is accepted iff the cooldown of the input has elapsed; a poll that reads
\* it released is no attempt.  A switch that stays pressed is accepted again
\* each time its cooldown has elapsed.
C27_LevelTriggered ==
    [][\A input \in DebouncedInputs :
          (pc = LevelPoll(input) /\ pc' # pc) =>
             IF sw[LevelSwitch(input)]
             THEN /\ last_attempt'.n # last_attempt.n
                  /\ last_attempt'.input = input
                  /\ last_attempt'.accepted <=>
                        now - LastAcceptedIn(last_hit, last_bumper_hit, input)
                           >= Cooldown(input)
             ELSE last_attempt' = last_attempt]_vars

\* bumper 1 read pressed on three polls in a row, one pass of the loop
\* apart: accepted, rejected inside the cooldown, accepted again
C27_Witness ==
    /\ Len(attempts) = 3
    /\ \A i \in 1..3 : attempts[i][1] = "bumper1"
    /\ attempts[2][2] = attempts[1][2] + SWITCH_SLEEP + 10
    /\ attempts[3][2] = attempts[2][2] + SWITCH_SLEEP + 10
    /\ attempts[1][3] /\ ~attempts[2][3] /\ attempts[3][3]
    /\ sw["bumper1"]
    /\ score = 2 * BUMPER_AWARD


(***************************************************************************)
(* The keys of the AUDIO TEST and DISPLAY TEST screens.                    *)
(***************************************************************************)
\* the step handles the KEYDOWN event k in test mode
TestKeyStep(k) == pc = "test" /\ batch' = batch + 1 /\ tm' = test_key(tm, k)

\* C28: on the AUDIO TEST screen LEFT and RIGHT pick the previous and the
\* next sound and the screen stays AUDIO TEST, UP and DOWN change the volume
\* by one step within [0.0, 1.0]; on the DISPLAY TEST screen LEFT and RIGHT
\* advance the pattern and the screen stays DISPLAY TEST.
C28_TestScreenKeys ==
    [][/\ tm.screen_index = AUDIO_TEST =>
            /\ TestKeyStep("LEFT") =>
                 /\ tm'.screen_index = AUDIO_TEST
                 /\ tm'.sound_index = (tm.sound_index + SOUNDS - 1) % SOUNDS
            /\ TestKeyStep("RIGHT") =>
                 /\ tm'.screen_index = AUDIO_TEST
                 /\ tm'.sound_index = (tm.sound_index + 1) % SOUNDS
            /\ TestKeyStep("UP") =>
                 tm'.test_volume = IF tm.test_volume < 10
                                   THEN tm.test_volume + 1 ELSE 10
            /\ TestKeyStep("DOWN") =>
                 tm'.test_volume = IF tm.test_volume > 0
                                   THEN tm.test_volume - 1 ELSE 0
       /\ tm.screen_index = DISPLAY_TEST =>
            /\ (TestKeyStep("LEFT") \/ TestKeyStep("RIGHT")) =>
                 /\ tm'.screen_index = DISPLAY_TEST
                 /\ tm'.display_pattern = (tm.display_pattern + 1) % PATTERNS]_vars


(***************************************************************************)
(* Solenoids and the pulses in flight, from test mode into gameplay.       *)
(***************************************************************************)
EnvHandover ==
    [keys |-> {}, attract |-> {"RETURN", "F9"}, held |-> {FALSE},
     switches |-> {"bumper1"}, testkeys |-> {"RIGHT", "SPACE"},
     frames |-> {ShortFrame}, writes |-> {"ok"}, horizon |-> HandoverTime]
InitHandover == InitWith({NoFile}, {TRUE})
NextHandover ==
    \/ GameLoop(EnvHandover)
    \/ Polling(EnvHandover)
    \/ TestMode(EnvHandover)
    \/ Pulses
SpecHandover == InitHandover /\ [][NextHandover]_vars

\* the pulses in flight on gate that are past gate.on()
Holding(gate) == {p \in BagToSet(pulses) : p.gate = gate /\ p.phase = "on"}

\* C29: a solenoid is on only while a pulse on it is between its gate.on()
\* and its gate.off(); every solenoid is off when no pulse is in flight, in
\* particular on the first start screen; and a solenoid is switched on only
\* by the step of a pulse on it that begins its sleep.
C29_OnOnlyInPulse ==
    /\ [](/\ \A gate \in Gates : gate_on[gate] => Holding(gate) # {}
          /\ pulses = EmptyBag => \A gate \in Gates : ~gate_on[gate]
          /\ (pc = "attract" /\ visit = 1) => pulses = EmptyBag)
    /\ [][\A gate \in Gates :
            (gate_on'[gate] /\ ~gate_on[gate]) =>
               /\ \E p \in BagToSet(pulses) :
                     /\ p.gate = gate
                     /\ p.phase = "new"
                     /\ pulses' = (pulses (-) SetToBag({p}))
                                  (+) SetToBag({[p EXCEPT !.phase = "on"]})
               /\ UNCHANGED threadVars]_vars

\* gate 1 is on in gameplay, held by a pulse the bumper started
C29_Witness ==
    /\ gate_on["gate1"]
    /\ current_mode = "GAMEPLAY_MODE"
    /\ score = BUMPER_AWARD
    /\ Holding("gate1") # {}
    /\ \A gate \in Gates \ {"gate1"} : ~gate_on[gate]

\* C30: no step starts a pulse on a solenoid while an earlier pulse on that
\* solenoid is in flight.
C30_NoOverlappingPulses ==
    [][\A gate \in Gates :
          Started(gate) > 0 => OnGate(pulses, gate) = 0]_vars


(***************************************************************************)
(* Balls remaining at the frame boundaries.                                *)
(***************************************************************************)
\* a gameplay frame begins: no event of its batch has been handled
FrameStart == pc = "events" /\ batch = 0

\* C31: when a gameplay frame begins and when a frame is rendered at least
\* one ball remains: a frame that ends its input handling with no ball left
\* goes to the game-over screen, and leaves it for the render with two balls.
C31_BallsAtFrameStart ==
    /\ [](FrameStart => balls_left >= 1)
    /\ [](pc = "render" => balls_left >= 1)
    /\ [][/\ (pc = "check" /\ balls_left = 0) => pc' # "render"
          /\ (pc = "game_over" /\ pc' = "render") =>
                balls_left' = START_BALLS]_vars

\* a frame begins with two balls after a round with a goal ended in game over
C31_Witness ==
    /\ FrameStart
    /\ balls_left = START_BALLS
    /\ score = 0
    /\ high_score = GOAL_AWARD
    /\ now >= program_start_time + START_FADE + GAME_OVER_FADE


(***************************************************************************)
(* What a reset of the round leaves alone.                                 *)
(***************************************************************************)
EnvCarry ==
    [keys |-> {"SPACE", "r", "b"}, attract |-> {"RETURN"}, held |-> {FALSE},
     switches |-> {"target1", "ball_drain"},
     frames |-> {30}, writes |-> {"ok"}, horizon |-> ResetTime]
InitCarry == InitWith({NoFile}, {TRUE})
NextCarry ==
    \/ GameLoop(EnvCarry)
    \/ KeyDown(EnvCarry)
    \/ Polling(EnvCarry)
    \/ Pulses
    \/ GameOver
SpecCarry == InitCarry /\ [][NextCarry]_vars

\* the step resets the round: only a reset gives balls back, lowers the
\* score, or clears the progress without paying the jackpot
RoundReset ==
    \/ balls_left' > balls_left
    \/ score' < score
    \/ collected' < collected /\ score' = score

=============================================================================
